---- MODULE Spec2Model ----
(***************************************************************************)
(* Model of the short-video analytics dashboard: DataProcessor             *)
(* (src/src/data_processor.py) and the ranking of                          *)
(* VideoAnalyticsDashboard.display_video_ranking (src/src/dashboard.py).   *)
(*                                                                         *)
(* Floating point values are modelled as exact rationals extended with     *)
(* the two IEEE specials the code can produce (inf and NaN): a record      *)
(* [cls, num, den] with cls in {"fin","inf","nan"} and num/den in lowest   *)
(* terms.  All inputs are non-negative, so -inf never arises.  Rounding    *)
(* to 2 decimals is numpy's round-half-to-even, applied to the exact       *)
(* value.                                                                  *)
(*                                                                         *)
(* Labels that are Chinese text in the source are written in English; the  *)
(* comment of each definition says which source line holds the original.   *)
(***************************************************************************)
EXTENDS Integers, Sequences, FiniteSets, TLC

VARIABLES
    df,            \* DataProcessor.self.df: None or the loaded DataFrame
    lastLoad,      \* outcome of the most recent load_data call: "none", "ok", "failed"
    derived,       \* run()'s local df: what calculate_metrics last returned to the caller
    firstDerived,  \* history: what the first calculate_metrics after the last load returned
    nCalc,         \* history: calculate_metrics calls since the last load
    ret            \* the last operation called and what it returned or raised

vars == <<df, lastLoad, derived, firstDerived, nCalc, ret>>

----------------------------------------------------------------------------
(* Bounds of the model *)

\* longest freely composed dataset
MaxRows == 2
\* rows beyond the ranking size in the longest pooled dataset
MaxExtra == 2
\* calculate_metrics calls followed after one load
MaxCalc == 2

----------------------------------------------------------------------------
(* Floats: exact rationals plus inf and NaN *)

RECURSIVE GCD(_, _)
GCD(a, b) == IF b = 0 THEN a ELSE GCD(b, a % b)

Rat(n, d) ==
    LET g == GCD(n, d)
    IN  [cls |-> "fin", num |-> n \div g, den |-> d \div g]

NaN == [cls |-> "nan", num |-> 0, den |-> 1]

Inf == [cls |-> "inf", num |-> 0, den |-> 1]

\* numpy true division of two non-negative integers: x/0 is inf, 0/0 is NaN,
\* neither raises
DivF(a, b) ==
    IF b = 0 THEN (IF a = 0 THEN NaN ELSE Inf) ELSE Rat(a, b)

\* float * positive integer
MulInt(x, k) ==
    IF x.cls = "fin" THEN Rat(x.num * k, x.den) ELSE x

AddF(x, y) ==
    IF x.cls = "nan" \/ y.cls = "nan" THEN NaN
    ELSE IF x.cls = "inf" \/ y.cls = "inf" THEN Inf
    ELSE LET g == GCD(x.den, y.den)
         IN  Rat(x.num * (y.den \div g) + y.num * (x.den \div g),
                 (x.den \div g) * y.den)

\* x.num/x.den - y.num/y.den, scaled by the common denominator
Diff(x, y) ==
    LET g == GCD(x.den, y.den)
    IN  x.num * (y.den \div g) - y.num * (x.den \div g)

\* IEEE comparisons: every comparison with NaN is false
Gt(x, y) ==
    /\ x.cls # "nan"
    /\ y.cls # "nan"
    /\ y.cls # "inf"
    /\ \/ x.cls = "inf"
       \/ Diff(x, y) > 0

Geq(x, y) ==
    /\ x.cls # "nan"
    /\ y.cls # "nan"
    /\ \/ x.cls = "inf"
       \/ y.cls = "fin" /\ Diff(x, y) >= 0

\* the integer nearest to n/d, halves to the even neighbour
RoundHalfEven(n, d) ==
    LET q == n \div d
        r == n % d
    IN  IF 2 * r < d THEN q
        ELSE IF 2 * r > d THEN q + 1
        ELSE IF q % 2 = 0 THEN q ELSE q + 1

\* .round(2): inf and NaN pass through
Round2(x) ==
    IF x.cls = "fin" THEN Rat(RoundHalfEven(x.num * 100, x.den), 100) ELSE x

----------------------------------------------------------------------------
(* Business constants *)

\* is_hot: engagement_rate > 5
HotEngagement == 5
\* is_hot: views > 20000
HotViews == 20000
\* nlargest(10, 'composite_score')
TopN == 10

----------------------------------------------------------------------------
(* Input files *)

\* three of the content types of generate_sample_data (line 104: the 2nd,
\* 1st and 3rd), in the order a groupby on the column sorts the source's
\* strings (by code point)
ContentTypes == <<"Lifestyle", "Knowledge", "Food">>

RawColumns ==
    {"video_id", "upload_time", "content_type", "views", "likes",
     "comments", "shares", "completion_rate"}

DerivedColumns == {"engagement_rate", "is_hot", "upload_hour", "time_period"}

\* one CSV row; upload_time is text, completion_rate is in hundredths
Row(type, hour, views, likes, comments, shares, cr) ==
    [video_id |-> 0, upload_time |-> [fmt |-> "str", hour |-> hour],
     content_type |-> type, views |-> views, likes |-> likes,
     comments |-> comments, shares |-> shares, completion_rate |-> cr]

Profiles ==
    << Row("Knowledge", 8, 25000, 1000, 300, 200, 50),   \* 6.00, hot
       Row("Lifestyle", 13, 10000, 200, 60, 40, 50),     \* 3.00
       Row("Knowledge", 20, 30000, 1500, 500, 250, 60),  \* 7.50, hot
       Row("Lifestyle", 23, 20000, 800, 150, 50, 50),    \* 5.00 at 20000 views
       Row("Food", 6, 20001, 802, 150, 50, 50),          \* 5.01 at 20001 views
       Row("Food", 15, 0, 0, 0, 0, 30),                  \* 0/0
       Row("Lifestyle", 3, 0, 5, 0, 0, 30),              \* 5/0
       Row("Food", 12, 30000, 1503, 500, 250, 60),       \* 7.51, hot
       Row("Food", 14, 20000, 900, 200, 100, 80),        \* 6.00 at 20000 views
       Row("Knowledge", 18, 20001, 700, 200, 100, 50) >> \* 4.99975 -> 5.00

NProfiles == Len(Profiles)

\* video ids follow the position in the file, as generate_sample_data writes them
WithIds(rows) ==
    [i \in 1..Len(rows) |-> [rows[i] EXCEPT !.video_id = 10000 + (i - 1)]]

\* n profiles, from one of them on at a fixed stride
Stride(start, step, n) ==
    [i \in 1..n |-> Profiles[((start - 1 + (i - 1) * step) % NProfiles) + 1]]

\* the empty file, every single profile, every ordered pair of profiles (a
\* profile with itself included), and longer files at a fixed stride
SmallDatasets ==
    {Stride(start, step, n) :
        start \in 1..NProfiles, step \in 0..(NProfiles - 1), n \in 0..MaxRows}

\* one row for every hour of the day
HourDatasets ==
    {<<[Profiles[1] EXCEPT !.upload_time.hour = h]>> : h \in 0..23}

\* long files: the profiles repeated in order
Pool(n) == Stride(1, 1, n)

\* the profiles with views > 0, in order
Viewed == SelectSeq(Profiles, LAMBDA r : r.views > 0)

\* long files without zero-view rows
ViewedPool(n) == [i \in 1..n |-> Viewed[((i - 1) % Len(Viewed)) + 1]]

PoolDatasets ==
    {Pool(n) : n \in (TopN - 1)..(TopN + MaxExtra)}
    \cup {ViewedPool(n) : n \in (TopN - 1)..(TopN + MaxExtra)}

\* three-row files: the end-to-end scenario of the specification (rates 6.0,
\* 3.0, 7.5), one whose mean rate has more than two decimals, one with both
\* zero-view rows
ScenarioDatasets ==
    {<<Profiles[1], Profiles[2], Profiles[3]>>,
     <<Profiles[1], Profiles[2], Profiles[8]>>,
     <<Profiles[6], Profiles[1], Profiles[7]>>}

Datasets ==
    {WithIds(d) : d \in SmallDatasets \cup ScenarioDatasets \cup HourDatasets
                         \cup PoolDatasets}

\* files whose timestamps do not load: the column is absent, or a value is
\* not a timestamp (hour -1 stands for unparsable text)
NoColumn(rows) ==
    [i \in 1..Len(rows) |-> [c \in RawColumns \ {"upload_time"} |-> rows[i][c]]]

BadTime(rows) ==
    [i \in 1..Len(rows) |->
        IF i = 1 THEN [rows[i] EXCEPT !.upload_time.hour = -1] ELSE rows[i]]

BrokenSeeds == {WithIds(<<Profiles[1]>>), WithIds(<<Profiles[2], Profiles[3]>>)}

Files ==
    {[exists |-> FALSE, columns |-> {}, rows |-> <<>>]}
    \cup {[exists |-> TRUE, columns |-> RawColumns, rows |-> d] : d \in Datasets}
    \cup {[exists |-> TRUE, columns |-> RawColumns \ {"upload_time"}, rows |-> NoColumn(d)] :
            d \in BrokenSeeds \cup {<<>>}}
    \cup {[exists |-> TRUE, columns |-> RawColumns, rows |-> BadTime(d)] : d \in BrokenSeeds}

----------------------------------------------------------------------------
(* Values *)

None == [kind |-> "None"]

Frame(columns, rows) == [kind |-> "frame", columns |-> columns, rows |-> rows]

Return(op, val) == [op |-> op, kind |-> "return", val |-> val]

Raise(op, exc) == [op |-> op, kind |-> "raise", exc |-> exc]

----------------------------------------------------------------------------
(* DataProcessor.load_data *)

read_csv(file) == Frame(file.columns, file.rows)

\* pd.to_datetime accepts a column when every value is a timestamp
to_datetime_ok(frame) ==
    \A i \in 1..Len(frame.rows) : frame.rows[i].upload_time.hour \in 0..23

to_datetime(frame) ==
    Frame(frame.columns,
          [i \in 1..Len(frame.rows) |->
              [frame.rows[i] EXCEPT !.upload_time.fmt = "datetime"]])

\* whether load_data returns True
load_data_ok(file) ==
    /\ file.exists
    /\ "upload_time" \in file.columns
    /\ to_datetime_ok(read_csv(file))

\* self.df when load_data returns: read_csv assigns it before the timestamps
\* are converted, and the except clause restores nothing
load_data_df(cur, file) ==
    IF ~file.exists THEN cur
    ELSE IF "upload_time" \notin file.columns THEN read_csv(file)
    ELSE IF ~to_datetime_ok(read_csv(file)) THEN read_csv(file)
    ELSE to_datetime(read_csv(file))

----------------------------------------------------------------------------
(* DataProcessor.calculate_metrics *)

\* source labels: line 44 "Morning", 46 "Midday", 48 "Afternoon",
\* 50 "Evening", 52 "Late Night"
\* the morning taken to start after 6
categorize_time_period_late(hour) ==
    IF 6 < hour /\ hour < 12 THEN "Morning"
    ELSE IF 12 <= hour /\ hour < 14 THEN "Midday"
    ELSE IF 14 <= hour /\ hour < 18 THEN "Afternoon"
    ELSE IF 18 <= hour /\ hour < 22 THEN "Evening"
    ELSE "Late Night"

categorize_time_period(hour) ==
    IF 6 <= hour /\ hour < 12 THEN "Morning"
    ELSE IF 12 <= hour /\ hour < 14 THEN "Midday"
    ELSE IF 14 <= hour /\ hour < 18 THEN "Afternoon"
    ELSE IF 18 <= hour /\ hour < 22 THEN "Evening"
    ELSE "Late Night"

engagement_rate(r) ==
    Round2(MulInt(DivF(r.likes + r.comments + r.shares, r.views), 100))

\* the thresholds taken as inclusive
is_hot_inclusive(er, views) == Geq(er, Rat(HotEngagement, 1)) /\ views >= HotViews

is_hot(er, views) == Gt(er, Rat(HotEngagement, 1)) /\ views > HotViews

DeriveRow(r) ==
    [c \in DOMAIN r \cup DerivedColumns |->
        CASE c = "engagement_rate" -> engagement_rate(r)
          [] c = "is_hot" -> is_hot(engagement_rate(r), r.views)
          [] c = "upload_hour" -> r.upload_time.hour
          [] c = "time_period" -> categorize_time_period(r.upload_time.hour)
          [] OTHER -> r[c]]

\* what calculate_metrics returns or raises for self.df = d
calculate_metrics(d) ==
    IF d.kind = "None" THEN Return("calculate_metrics", None)
    ELSE IF "upload_time" \notin d.columns
        THEN Raise("calculate_metrics", "KeyError")
    ELSE IF \E i \in 1..Len(d.rows) : d.rows[i].upload_time.fmt # "datetime"
        THEN Raise("calculate_metrics", "AttributeError")
    ELSE Return("calculate_metrics",
                Frame(d.columns \cup DerivedColumns,
                      [i \in 1..Len(d.rows) |-> DeriveRow(d.rows[i])]))

\* the columns added to self.df itself, without the copy
calculate_metrics_alias(d) ==
    IF calculate_metrics(d).kind = "return" /\ d.kind = "frame"
    THEN calculate_metrics(d).val
    ELSE d

\* self.df after calculate_metrics: the columns are added to a copy
calculate_metrics_self(d) == d

----------------------------------------------------------------------------
(* Aggregation helpers *)

RECURSIVE SumInt(_, _)
SumInt(rows, col) ==
    IF rows = <<>> THEN 0 ELSE rows[1][col] + SumInt(Tail(rows), col)

RECURSIVE CountTrue(_, _)
CountTrue(rows, col) ==
    IF rows = <<>> THEN 0
    ELSE (IF rows[1][col] THEN 1 ELSE 0) + CountTrue(Tail(rows), col)

RECURSIVE SumF(_, _)
SumF(rows, col) ==
    IF rows = <<>> THEN Rat(0, 1) ELSE AddF(rows[1][col], SumF(Tail(rows), col))

NotNaN(rows, col) == SelectSeq(rows, LAMBDA r : r[col].cls # "nan")

OnlyNaN(rows, col) == SelectSeq(rows, LAMBDA r : r[col].cls = "nan")

\* pandas mean of a float column: NaN values are skipped, an empty rest is NaN
MeanF(rows, col) ==
    LET kept == NotNaN(rows, col)
        s == SumF(kept, col)
    IN  IF kept = <<>> THEN NaN
        ELSE IF s.cls = "inf" THEN Inf
        ELSE Rat(s.num, s.den * Len(kept))

MeanInt(rows, col) == DivF(SumInt(rows, col), Len(rows))

----------------------------------------------------------------------------
(* DataProcessor.get_summary_metrics *)

\* hot_videos_count / total_videos * 100, rounded: a numpy integer divided
\* by zero gives NaN, not an exception
hot_videos_rate(hot, total) == Round2(MulInt(DivF(hot, total), 100))

SummaryMetrics(d) ==
    [total_videos |-> Len(d.rows),
     total_views |-> SumInt(d.rows, "views"),
     avg_engagement_rate |-> MeanF(d.rows, "engagement_rate"),
     hot_videos_count |-> CountTrue(d.rows, "is_hot"),
     hot_videos_rate |-> hot_videos_rate(CountTrue(d.rows, "is_hot"), Len(d.rows))]

\* the division done on Python integers, which raises on a zero divisor
get_summary_metrics_pyint(d) ==
    IF d.kind = "None" THEN Raise("get_summary_metrics", "TypeError")
    ELSE IF Len(d.rows) = 0 THEN Raise("get_summary_metrics", "ZeroDivisionError")
    ELSE Return("get_summary_metrics", SummaryMetrics(d))

get_summary_metrics(d) ==
    IF d.kind = "None" THEN Raise("get_summary_metrics", "TypeError")
    ELSE Return("get_summary_metrics", SummaryMetrics(d))

----------------------------------------------------------------------------
(* Sorting *)

\* ties of a float column: equal finite values, or both inf
SameKey(x, y) == x = y /\ x.cls # "nan"

\* r placed behind every row whose key is at least r's
InsertDesc(sorted, r, col) ==
    LET n == Len(sorted)
        k == Cardinality({i \in 1..n : Geq(sorted[i][col], r[col])})
    IN  SubSeq(sorted, 1, k) \o <<r>> \o SubSeq(sorted, k + 1, n)

\* descending order of the rows without NaN key, ties in their original order
RECURSIVE StableDesc(_, _)
StableDesc(rows, col) ==
    IF rows = <<>> THEN <<>>
    ELSE InsertDesc(StableDesc(SubSeq(rows, 1, Len(rows) - 1), col),
                    rows[Len(rows)], col)

Perms(s) ==
    {[i \in 1..Len(s) |-> s[f[i]]] : f \in Permutations(1..Len(s))}

\* every order of a descending sequence that only reorders rows of equal key
RECURSIVE TieOrders(_, _)
TieOrders(sorted, col) ==
    IF sorted = <<>> THEN {<<>>}
    ELSE LET n == Len(sorted)
             k == Cardinality({i \in 1..n : SameKey(sorted[i][col], sorted[1][col])})
         IN  {p \o t : p \in Perms(SubSeq(sorted, 1, k)),
                       t \in TieOrders(SubSeq(sorted, k + 1, n), col)}

\* sort_values(col, ascending=False) with the default kind 'quicksort': NaN
\* keys last in their original order; quicksort is not a stable sort, so
\* rows of equal key may come out in any order
sort_values_desc(rows, col) ==
    {t \o OnlyNaN(rows, col) : t \in TieOrders(StableDesc(NotNaN(rows, col), col), col)}

----------------------------------------------------------------------------
(* DataProcessor.get_content_type_analysis, get_time_period_analysis *)

\* the five labels in the order a groupby on the column sorts the source's
\* strings (by code point: lines 48, 46, 44, 50, 52)
TimePeriods == <<"Afternoon", "Midday", "Morning", "Evening", "Late Night">>

\* groupby(col): the keys present, in sorted key order
GroupKeys(rows, col, order) ==
    SelectSeq(order, LAMBDA k : \E i \in 1..Len(rows) : rows[i][col] = k)

Group(rows, col, k) == SelectSeq(rows, LAMBDA r : r[col] = k)

\* hot_rate left as a fraction
ContentStatsRowFraction(g, k) ==
    [content_type |-> k,
     views |-> Round2(MeanInt(g, "views")),
     engagement_rate |-> Round2(MeanF(g, "engagement_rate")),
     video_count |-> Len(g),
     hot_videos |-> CountTrue(g, "is_hot"),
     hot_rate |-> Round2(DivF(CountTrue(g, "is_hot"), Len(g)))]

ContentStatsRow(g, k) ==
    [content_type |-> k,
     views |-> Round2(MeanInt(g, "views")),
     engagement_rate |-> Round2(MeanF(g, "engagement_rate")),
     video_count |-> Len(g),
     hot_videos |-> CountTrue(g, "is_hot"),
     hot_rate |-> Round2(MulInt(DivF(CountTrue(g, "is_hot"), Len(g)), 100))]

\* content_stats before the final sort_values
content_stats(d) ==
    LET keys == GroupKeys(d.rows, "content_type", ContentTypes)
    IN  [i \in 1..Len(keys) |->
            ContentStatsRow(Group(d.rows, "content_type", keys[i]), keys[i])]

TimeStatsRow(g, k) ==
    [time_period |-> k,
     views |-> Round2(MeanInt(g, "views")),
     engagement_rate |-> Round2(MeanF(g, "engagement_rate")),
     video_count |-> Len(g)]

\* time_stats before the final sort_values
time_stats(d) ==
    LET keys == GroupKeys(d.rows, "time_period", TimePeriods)
    IN  [i \in 1..Len(keys) |->
            TimeStatsRow(Group(d.rows, "time_period", keys[i]), keys[i])]

----------------------------------------------------------------------------
(* VideoAnalyticsDashboard.display_video_ranking *)

MulRat(x, n, d) ==
    IF x.cls = "fin" THEN Rat(x.num * n, x.den * d) ELSE x

\* engagement_rate * 0.4 + (views / 1000) * 0.3 + completion_rate * 100 * 0.3
composite_score(r) ==
    AddF(AddF(MulRat(r.engagement_rate, 2, 5), Rat(r.views * 3, 10000)),
         Rat(r.completion_rate * 3, 10))

RankColumns ==
    {"video_id", "content_type", "views", "engagement_rate",
     "completion_rate", "composite_score", "upload_time"}

WithScore(r) ==
    [c \in DOMAIN r \cup {"composite_score"} |->
        IF c = "composite_score" THEN composite_score(r) ELSE r[c]]

Min(a, b) == IF a <= b THEN a ELSE b

\* nlargest(n, col), keep='first'.  With n >= len pandas sorts the whole
\* column (sort_values, default kind); otherwise it picks the n largest with
\* a stable sort and fills up with NaN rows
nlargest(n, rows, col) ==
    IF n >= Len(rows) THEN sort_values_desc(rows, col)
    ELSE LET kept == StableDesc(NotNaN(rows, col), col)
             top == SubSeq(kept, 1, Min(n, Len(kept)))
         IN  {SubSeq(top \o OnlyNaN(rows, col), 1, n)}

\* the frames top_videos can be; the formatted copy handed to st.dataframe
\* (lines 165-184) is presentation and not part of the value
top_videos(d) ==
    LET df_rank == [i \in 1..Len(d.rows) |-> WithScore(d.rows[i])]
    IN  {[i \in 1..Len(t) |-> [c \in RankColumns |-> t[i][c]]] :
            t \in nlargest(TopN, df_rank, "composite_score")}

\* the caller's frame after display_video_ranking: the score is added to a copy
display_video_ranking_df(d) == d

----------------------------------------------------------------------------
(* The state machine *)

Unset == [kind |-> "unset"]

Init ==
    /\ df = None
    /\ lastLoad = "none"
    /\ derived = Unset
    /\ firstDerived = Unset
    /\ nCalc = 0
    /\ ret = Return("init", TRUE)

\* load_data, the first call of run(): the locals of an earlier run are gone
LoadData ==
    \E file \in Files :
        /\ df' = load_data_df(df, file)
        /\ lastLoad' = IF load_data_ok(file) THEN "ok" ELSE "failed"
        /\ ret' = Return("load_data", load_data_ok(file))
        /\ derived' = Unset
        /\ firstDerived' = Unset
        /\ nCalc' = 0

CalculateMetrics ==
    /\ nCalc < MaxCalc
    /\ nCalc' = nCalc + 1
    /\ ret' = calculate_metrics(df)
    /\ df' = calculate_metrics_self(df)
    /\ derived' = IF ret'.kind = "return" THEN ret'.val ELSE derived
    /\ firstDerived' =
           IF firstDerived = Unset /\ ret'.kind = "return" THEN ret'.val
           ELSE firstDerived
    /\ UNCHANGED lastLoad

GetSummaryMetrics ==
    /\ derived # Unset
    /\ ret' = get_summary_metrics(derived)
    /\ UNCHANGED <<df, lastLoad, derived, firstDerived, nCalc>>

GetContentTypeAnalysis ==
    /\ derived # Unset
    /\ IF derived.kind = "None"
       THEN ret' = Raise("get_content_type_analysis", "AttributeError")
       ELSE \E sorted \in sort_values_desc(content_stats(derived), "engagement_rate") :
               ret' = Return("get_content_type_analysis", sorted)
    /\ UNCHANGED <<df, lastLoad, derived, firstDerived, nCalc>>

GetTimePeriodAnalysis ==
    /\ derived # Unset
    /\ IF derived.kind = "None"
       THEN ret' = Raise("get_time_period_analysis", "AttributeError")
       ELSE \E sorted \in sort_values_desc(time_stats(derived), "engagement_rate") :
               ret' = Return("get_time_period_analysis", sorted)
    /\ UNCHANGED <<df, lastLoad, derived, firstDerived, nCalc>>

DisplayVideoRanking ==
    /\ derived # Unset
    /\ IF derived.kind = "None"
       THEN /\ ret' = Raise("display_video_ranking", "AttributeError")
            /\ derived' = derived
       ELSE /\ \E top \in top_videos(derived) :
                   ret' = Return("display_video_ranking", top)
            /\ derived' = display_video_ranking_df(derived)
    /\ UNCHANGED <<df, lastLoad, firstDerived, nCalc>>

Next ==
    \/ LoadData
    \/ CalculateMetrics
    \/ GetSummaryMetrics
    \/ GetContentTypeAnalysis
    \/ GetTimePeriodAnalysis
    \/ DisplayVideoRanking

Spec == Init /\ [][Next]_vars

----------------------------------------------------------------------------
(* Properties *)

HasFrame == derived.kind = "frame"

Returned(op) == ret.op = op /\ ret.kind = "return"

\* every engagement_rate of the caller's frame is a number
FiniteRates == \A i \in 1..Len(derived.rows) : derived.rows[i].engagement_rate.cls = "fin"

\* position of a key in a sequence of distinct keys
IndexOf(order, k) == CHOOSE i \in 1..Len(order) : order[i] = k

\* C1: a load that fails leaves the engine Unloaded (self.df is None), so a
\* calculate_metrics call made after it returns no data.
C1_FailedLoadLeavesUnloaded ==
    lastLoad = "failed" =>
        /\ df = None
        /\ ret.op = "calculate_metrics" => (ret.kind = "return" /\ ret.val = None)

\* C2: a derived record is hot exactly when its engagement_rate is strictly
\* above 5 and its views strictly above 20000; 20000 views or a rate of 5.00
\* is never hot, 20001 views with a rate of 5.01 is hot.
C2_IsHotStrict ==
    HasFrame =>
        \A i \in 1..Len(derived.rows) :
            LET r == derived.rows[i]
                er == r.engagement_rate
                above5 == er.cls = "inf" \/ (er.cls = "fin" /\ er.num >= 5 * er.den + 1)
            IN  /\ r.is_hot <=> (above5 /\ r.views >= 20001)
                /\ (r.views = 20000 \/ er = [cls |-> "fin", num |-> 5, den |-> 1]) => ~r.is_hot
                /\ (r.views = 20001 /\ er = [cls |-> "fin", num |-> 501, den |-> 100]) => r.is_hot

C2_Witness ==
    /\ HasFrame
    /\ \E i \in 1..Len(derived.rows) :
           /\ derived.rows[i].views = 20001
           /\ derived.rows[i].engagement_rate = [cls |-> "fin", num |-> 501, den |-> 100]
           /\ derived.rows[i].is_hot
    /\ \E i \in 1..Len(derived.rows) :
           /\ derived.rows[i].views = 20000
           /\ derived.rows[i].engagement_rate = [cls |-> "fin", num |-> 5, den |-> 1]
           /\ ~derived.rows[i].is_hot

\* the hours the specification gives each label
HoursOf(label) ==
    CASE label = "Morning" -> 6..11
      [] label = "Midday" -> 12..13
      [] label = "Afternoon" -> 14..17
      [] label = "Evening" -> 18..21
      [] label = "Late Night" -> {22, 23} \cup 0..5

Labels == {"Morning", "Midday", "Afternoon", "Evening", "Late Night"}

\* C3: every hour 0..23 of a derived record gets exactly one of the five
\* labels: 6..11 Morning, 12..13 Midday, 14..17 Afternoon, 18..21 Evening,
\* 22, 23 and 0..5 Late Night.
C3_TimePeriodPartition ==
    HasFrame =>
        \A i \in 1..Len(derived.rows) :
            LET r == derived.rows[i]
            IN  /\ r.upload_hour \in 0..23
                /\ r.time_period \in Labels
                /\ \A l \in Labels : r.time_period = l <=> r.upload_hour \in HoursOf(l)

C3_Witness ==
    /\ HasFrame
    /\ \A l \in Labels : \E i \in 1..Len(derived.rows) : derived.rows[i].time_period = l
    /\ \E i \in 1..Len(derived.rows) :
           derived.rows[i].upload_hour = 23 /\ derived.rows[i].time_period = "Late Night"

\* C4: every engagement_rate in the derived dataset is a finite value >= 0,
\* also for a record with views = 0.
C4_EngagementRateFinite ==
    HasFrame =>
        \A i \in 1..Len(derived.rows) :
            /\ derived.rows[i].engagement_rate.cls = "fin"
            /\ derived.rows[i].engagement_rate.num >= 0

\* C5: for a non-empty derived dataset summarize returns the record count,
\* the sum of views, the mean engagement_rate rounded to 2 decimals, the
\* number of hot records and hot count / count * 100 rounded to 2 decimals.
C5_SummaryRounded ==
    (ret.op = "get_summary_metrics" /\ HasFrame /\ Len(derived.rows) > 0 /\ FiniteRates) =>
        /\ ret.kind = "return"
        /\ ret.val.total_videos = Len(derived.rows)
        /\ ret.val.total_views = SumInt(derived.rows, "views")
        /\ ret.val.avg_engagement_rate =
               Round2(DivF(SumF(derived.rows, "engagement_rate").num,
                           SumF(derived.rows, "engagement_rate").den * Len(derived.rows)))
        /\ ret.val.hot_videos_count =
               Cardinality({i \in 1..Len(derived.rows) : derived.rows[i].is_hot})
        /\ ret.val.hot_videos_rate =
               Round2(DivF(100 * ret.val.hot_videos_count, ret.val.total_videos))

HotInGroup(col, k) ==
    Cardinality({i \in 1..Len(derived.rows) :
                    derived.rows[i][col] = k /\ derived.rows[i].is_hot})

SizeOfGroup(col, k) ==
    Cardinality({i \in 1..Len(derived.rows) : derived.rows[i][col] = k})

\* hot count and hot_rate of one row of a grouped view
HotRateRow(row, col) ==
    /\ {"hot_videos", "hot_rate"} \subseteq DOMAIN row
    /\ row.hot_videos = HotInGroup(col, row[col])
    /\ row.hot_rate = Round2(DivF(100 * row.hot_videos, SizeOfGroup(col, row[col])))
    /\ Geq(row.hot_rate, Rat(0, 1))
    /\ Geq(Rat(100, 1), row.hot_rate)

StableDescending(rows, col, order) ==
    \A i, j \in 1..Len(rows) :
        i < j =>
            /\ Geq(rows[i].engagement_rate, rows[j].engagement_rate)
            /\ rows[i].engagement_rate = rows[j].engagement_rate =>
                   IndexOf(order, rows[i][col]) < IndexOf(order, rows[j][col])

\* C7: both grouped views are ordered by mean engagement_rate descending,
\* and groups of equal mean keep their group iteration order.
C7_GroupsStableDescending ==
    (HasFrame /\ FiniteRates) =>
        /\ Returned("get_content_type_analysis") =>
               StableDescending(ret.val, "content_type", ContentTypes)
        /\ Returned("get_time_period_analysis") =>
               StableDescending(ret.val, "time_period", TimePeriods)

\* the row of the caller's frame a ranked row comes from
SourceRow(id) == derived.rows[CHOOSE i \in 1..Len(derived.rows) : derived.rows[i].video_id = id]

\* C8: the ranking scores each record engagement_rate*0.4 + views/1000*0.3
\* + completion_rate*100*0.3 and returns min(10, number of records) records
\* by that score descending, equal scores in original record order.
C8_RankTopN ==
    (Returned("display_video_ranking") /\ FiniteRates) =>
        /\ Len(ret.val) = Min(10, Len(derived.rows))
        /\ \A i \in 1..Len(ret.val) :
               LET r == SourceRow(ret.val[i].video_id)
               IN  ret.val[i].composite_score =
                       Rat(40 * r.engagement_rate.num * (100 \div r.engagement_rate.den)
                               + 3 * r.views + 3000 * r.completion_rate,
                           10000)
        /\ \A i, j \in 1..Len(ret.val) :
               i < j =>
                   /\ Geq(ret.val[i].composite_score, ret.val[j].composite_score)
                   /\ ret.val[i].composite_score = ret.val[j].composite_score =>
                          ret.val[i].video_id < ret.val[j].video_id

C10_CalculateIdempotent ==
    lastLoad = "ok" =>
        /\ df.kind = "frame"
        /\ df.columns = RawColumns
        /\ \A i \in 1..Len(df.rows) : DOMAIN df.rows[i] = RawColumns
        /\ Returned("calculate_metrics") => ret.val = firstDerived
        /\ HasFrame =>
               /\ derived = firstDerived
               /\ derived.columns = RawColumns \cup DerivedColumns
               /\ \A i \in 1..Len(derived.rows) :
                      DOMAIN derived.rows[i] = RawColumns \cup DerivedColumns

C10_Witness ==
    /\ lastLoad = "ok"
    /\ nCalc = 2
    /\ Returned("calculate_metrics")
    /\ ret.val = firstDerived
    /\ Len(ret.val.rows) = 3

====
